---------------------------- MODULE Spec2Model ----------------------------
(***************************************************************************)
(* A model of typeorm-graphql-loader's query compiler.                     *)
(*                                                                         *)
(*   GraphQLQueryResolver  (createQuery and its helpers): walks a          *)
(*     selection tree and the entity metadata in lockstep and appends      *)
(*     addSelect / leftJoin / leftJoinAndSelect calls to a query builder.  *)
(*   GraphQLInfoParser     (graphqlFields / flattenAST): turns the         *)
(*     GraphQL field AST, fragments included, into the selection tree.     *)
(*                                                                         *)
(* The recursion of createQuery is modelled by an explicit call stack: one *)
(* frame per invocation, pushed when the invocation is entered (its field  *)
(* and embedded selection run at once) and popped when its relation loop   *)
(* is exhausted.                                                           *)
(***************************************************************************)
EXTENDS Integers, Sequences, FiniteSets, TLC

VARIABLES
    maxDepth,          \* this._maxDepth
    primaryKeyColumn,  \* this._primaryKeyColumn
    requiredFields,    \* getLoaderRequiredFields: entity -> (property -> value)
    ignoredFields,     \* getLoaderIgnoredFields:  entity -> (property -> value)
    phase,             \* "config" | "idle" | "running" | "done" | "parsed"
    round,             \* number of resolutions started so far
    request,           \* the arguments of the caller's createQuery invocation
    stack,             \* the active createQuery invocations, innermost last
    queryBuilder,      \* the calls made on the SelectQueryBuilder, in order
    calls,             \* every createQuery invocation of this resolution, in order:
                       \* its arguments, with the selection cut to its shape (kind)
                       \* and the names of its children (keys)
    previous,          \* the join aliases of the previous resolution
    info,              \* GraphQLResolveInfo handed to graphqlFields
    parsed             \* what graphqlFields returned

vars == <<maxDepth, primaryKeyColumn, requiredFields, ignoredFields, phase, round,
          request, stack, queryBuilder, calls, previous, info, parsed>>

(***************************************************************************)
(* Values                                                                  *)
(***************************************************************************)

\* JavaScript's Infinity, the default of maxQueryDepth.
Infinity == -1

\* undefined: an option that was not given, a missing map entry.
None == "undefined"

\* a < b for a finite a and a b that may be Infinity.
LessThan(a, b) == b = Infinity \/ a < b

\* map.get(key) / obj[key]: undefined when the key is absent.
Get(map, key) == IF key \in DOMAIN map THEN map[key] ELSE None

\* The largest number of field nodes of a selection tree.
MaxNodes == 2

\* The largest finite maxQueryDepth configured.
MaxQueryDepth == 1

\* The largest number of selection nodes of a request document, the field
\* nodes handed to graphqlFields not counted.
MaxAstNodes == 4

\* The largest number of nodes of an argument's literal, the literal itself
\* and the literals nested in it counted.
MaxLiteralNodes == 3

Max(S) == CHOOSE m \in S : \A n \in S : n <= m

RECURSIVE Sum(_)
Sum(s) == IF s = <<>> THEN 0 ELSE Head(s) + Sum(Tail(s))

RECURSIVE Flat(_)
Flat(ss) == IF ss = <<>> THEN <<>> ELSE Head(ss) \o Flat(Tail(ss))

Range(f) == {f[k] : k \in DOMAIN f}

(***************************************************************************)
(* Entity metadata: what connection.getMetadata(model) returns for the     *)
(* entities of the connection.  Author.books and Book.author refer to each *)
(* other; Book.sequel refers to Book itself.                               *)
(***************************************************************************)

Column(name, primary) ==
    [propertyName |-> name, databaseName |-> name, isPrimary |-> primary]

Relation(name, target) ==
    [propertyName |-> name, inverseEntityMetadata |-> target]

Embedded(name, members) ==
    [propertyName |-> name,
     columns |-> [i \in DOMAIN members |-> Column(members[i], FALSE)]]

Entities == {"Author", "Book"}

getMetadata(model) ==
    IF model = "Author"
    THEN [target    |-> "Author",
          columns   |-> <<Column("id", TRUE), Column("name", FALSE)>>,
          embeddeds |-> <<Embedded("address", <<"city">>)>>,
          relations |-> <<Relation("books", "Book")>>]
    ELSE [target    |-> "Book",
          columns   |-> <<Column("id", TRUE)>>,
          embeddeds |-> <<>>,
          relations |-> <<Relation("author", "Author"), Relation("sequel", "Book")>>]

PropertyNames(meta) ==
    {c.propertyName : c \in Range(meta.columns)}
        \cup {e.propertyName : e \in Range(meta.embeddeds)}
        \cup {r.propertyName : r \in Range(meta.relations)}

ColumnNames(meta) == {c.propertyName : c \in Range(meta.columns)}

RelationNames(meta) == {r.propertyName : r \in Range(meta.relations)}

(***************************************************************************)
(* Selection trees (types.ts, Selection): children is a Hash<Selection>,   *)
(* a function from field names to nodes.  kind tells the three shapes a    *)
(* caller can pass: null, a node without children, a node with children.   *)
(***************************************************************************)

NullSelection == [kind |-> "null", children |-> <<>>]

NoChildren == [kind |-> "absent", children |-> <<>>]

Node(children) == [kind |-> "node", children |-> children]

RECURSIVE Height(_)
\* The number of nodes on the longest path from the node down; 0 for no node.
Height(sel) ==
    IF sel.kind # "node" THEN 0
    ELSE IF DOMAIN sel.children = {} THEN 1
    ELSE 1 + Max({Height(sel.children[k]) : k \in DOMAIN sel.children})

(***************************************************************************)
(* The inputs the model draws.                                             *)
(***************************************************************************)

\* The fields a client can name under a value of the given type, each with
\* the type of what it selects: "scalar", an entity, or an embedded object.
FieldsOf(type) ==
    IF type \in Entities
    THEN LET meta == getMetadata(type)
         IN  [i \in DOMAIN meta.columns |->
                 [name |-> meta.columns[i].propertyName, type |-> "scalar"]]
             \o [i \in DOMAIN meta.embeddeds |->
                 [name |-> meta.embeddeds[i].propertyName,
                  type |-> type \o "." \o meta.embeddeds[i].propertyName]]
             \o [i \in DOMAIN meta.relations |->
                 [name |-> meta.relations[i].propertyName,
                  type |-> meta.relations[i].inverseEntityMetadata]]
    ELSE IF type = "Author.address"
    THEN [i \in DOMAIN getMetadata("Author").embeddeds[1].columns |->
             [name |-> getMetadata("Author").embeddeds[1].columns[i].propertyName,
              type |-> "scalar"]]
    ELSE <<>>

RECURSIVE ChildrenOver(_, _)
\* Every children mapping over the given fields with at most n field nodes in
\* all, each with its number of nodes.
ChildrenOver(fields, n) ==
    IF fields = <<>> THEN {[c |-> <<>>, n |-> 0]}
    ELSE LET f == Head(fields)
             without == ChildrenOver(Tail(fields), n)
             with ==
                 IF n = 0 THEN {}
                 ELSE UNION {
                        {[c |-> (f.name :> Node(sub.c)) @@ rest.c,
                          n |-> 1 + sub.n + rest.n] :
                            rest \in ChildrenOver(Tail(fields), n - 1 - sub.n)} :
                        sub \in ChildrenOver(FieldsOf(f.type), n - 1)}
         IN  without \cup with

\* The selection trees a caller passes for an entity.
Selections(model) ==
    {NullSelection, NoChildren}
        \cup {Node(x.c) : x \in ChildrenOver(FieldsOf(model), MaxNodes)}

\* Request contexts.  A context is an object the caller supplies; the value
\* form is what a number passed in the context position looks like.
Context(role) == [kind |-> "object", role |-> role, value |-> 0]

NumberAsContext(n) == [kind |-> "number", role |-> None, value |-> n]

Contexts == {Context("admin"), Context("guest")}

\* The predicates a required-field policy may hold instead of a boolean.
Predicates == {"ifAdmin", "ifAsksId"}

\* predicate(context, Object.keys(children))
Apply(predicate, context, keys) ==
    CASE predicate = "ifAdmin"  -> context.kind = "object" /\ context.role = "admin"
      [] predicate = "ifAsksId" -> "id" \in keys
      [] OTHER -> FALSE

\* One property of one entity carries a policy: required (true or a
\* predicate), ignored, or both.
Policies ==
    {[required |-> [e \in Entities |-> <<>>], ignored |-> [e \in Entities |-> <<>>]]}
    \cup
    {[required |-> [e \in Entities |->
                      IF e = t /\ r # None THEN (p :> r) ELSE <<>>],
      ignored  |-> [e \in Entities |->
                      IF e = t /\ i THEN (p :> "true") ELSE <<>>]] :
        <<t, p, r, i>> \in
          {q \in Entities \X {"id", "name", "address", "books", "author", "sequel"}
                   \X ({None, "true"} \cup Predicates) \X BOOLEAN :
              /\ q[2] \in PropertyNames(getMetadata(q[1]))
              /\ (q[3] # None \/ q[4])}}

\* The loader options: maxQueryDepth with no primaryKeyColumn, or a
\* primaryKeyColumn with maxQueryDepth left at its default.
Options ==
    {[maxQueryDepth |-> d, primaryKeyColumn |-> None] :
        d \in (0..MaxQueryDepth) \cup {Infinity}}
    \cup
    {[maxQueryDepth |-> Infinity, primaryKeyColumn |-> k] : k \in {"id", "name"}}

(***************************************************************************)
(* The query builder records the calls made on it.  Beside the arguments   *)
(* of the call (selection, alias) a record keeps what they were formatted  *)
(* from: the alias of the row source (on), the metadata property the call  *)
(* stems from (of), and the index in calls of the createQuery invocation   *)
(* that made it (call).                                                    *)
(***************************************************************************)

\* Formatter.columnSelection(alias, field)
columnSelection(alias, field) == alias \o "." \o field

\* Formatter.aliasField(alias, field)
aliasField(alias, field) == alias \o "_" \o field

addSelect(on, of, field, name) ==
    [op |-> "addSelect", selection |-> columnSelection(on, field),
     alias |-> name, on |-> on, of |-> of, call |-> 0]

leftJoin(on, property, childAlias) ==
    [op |-> "leftJoin", selection |-> columnSelection(on, property),
     alias |-> childAlias, on |-> on, of |-> property, call |-> 0]

leftJoinAndSelect(on, property, childAlias) ==
    [op |-> "leftJoinAndSelect", selection |-> columnSelection(on, property),
     alias |-> childAlias, on |-> on, of |-> property, call |-> 0]

MadeBy(ops, call) ==
    [i \in DOMAIN ops |->
        [op |-> ops[i].op, selection |-> ops[i].selection, alias |-> ops[i].alias,
         on |-> ops[i].on, of |-> ops[i].of, call |-> call]]

(***************************************************************************)
(* GraphQLQueryResolver                                                    *)
(***************************************************************************)

\* JavaScript truthiness of a policy value: true, false, a function, or
\* undefined.  A function is truthy whatever it would return.
Truthy(value) == value \notin {None, "false"}

getLoaderRequiredFields(target) == requiredFields[target]

getLoaderIgnoredFields(target) == ignoredFields[target]

\* crypto.createHash("md5").update(text).digest("hex"), as an uninterpreted
\* injective function of the text.
Md5Hex(text) == "md5(" \o text \o ")"

\* output.slice(0, length): the first `length` characters of a digest.
Slice(output, length) == output \o "[0:" \o ToString(length) \o "]"

\* The digest salted with the number of the resolution.
_generateChildHashSalted(alias, propertyName, length) ==
    Slice(Md5Hex(alias \o "__" \o propertyName \o "#" \o ToString(round)), length)

_generateChildHash(alias, propertyName, length) ==
    LET output == Md5Hex(alias \o "__" \o propertyName)
    IN  IF length # 0 THEN Slice(output, length) ELSE output

\* if (selection)
HasSelection(selection) == selection.kind # "null"

\* if (selection && selection.children)
HasChildren(selection) == selection.kind = "node"

\* children[name]
ChildSelection(children, name) ==
    IF name \in DOMAIN children THEN children[name] ELSE NullSelection

\* const fields = meta.columns.filter(...)
selectedFields(meta, selection) ==
    LET required == getLoaderRequiredFields(meta.target)
        ignored  == getLoaderIgnoredFields(meta.target)
        Wanted(field) ==
            /\ ~Truthy(Get(ignored, field.propertyName))
            /\ \/ field.isPrimary
               \/ field.propertyName \in DOMAIN selection.children
               \/ Truthy(Get(required, field.propertyName))
    IN  SelectSeq(meta.columns, Wanted)

\* const embeddedFields = meta.embeddeds.filter(...)
selectedEmbeddedFields(meta, selection) ==
    LET required == getLoaderRequiredFields(meta.target)
        ignored  == getLoaderIgnoredFields(meta.target)
        Wanted(embed) ==
            /\ ~Truthy(Get(ignored, embed.propertyName))
            /\ \/ embed.propertyName \in DOMAIN selection.children
               \/ Truthy(Get(required, embed.propertyName))
    IN  SelectSeq(meta.embeddeds, Wanted)

\* The primary key column added without looking at the queried fields.
_selectPrimaryKeyAlways(fields, alias) ==
    IF primaryKeyColumn = None THEN <<>>
    ELSE <<addSelect(alias, primaryKeyColumn, primaryKeyColumn,
                     aliasField(alias, primaryKeyColumn))>>

_selectPrimaryKey(fields, alias) ==
    IF primaryKeyColumn = None THEN <<>>
    ELSE LET queriedPrimaryKey ==
                 {f \in Range(fields) : f.propertyName = primaryKeyColumn}
         IN  IF queriedPrimaryKey # {} THEN <<>>
             ELSE <<addSelect(alias, primaryKeyColumn, primaryKeyColumn,
                              aliasField(alias, primaryKeyColumn))>>

_selectFields(fields, alias) ==
    _selectPrimaryKey(fields, alias)
        \o [i \in DOMAIN fields |->
               addSelect(alias, fields[i].propertyName, fields[i].propertyName,
                         aliasField(alias, fields[i].databaseName))]

_selectEmbeddedFields(embeddedFields, children, meta, alias) ==
    LET required == getLoaderRequiredFields(meta.target)
        Members(field) ==
            IF Truthy(Get(required, field.propertyName))
            THEN field.columns
            ELSE IF field.propertyName \in DOMAIN children
            THEN LET Asked(column) ==
                         column.propertyName
                             \in DOMAIN children[field.propertyName].children
                 IN  SelectSeq(field.columns, Asked)
            ELSE <<>>
        ToSelect(field) ==
            [i \in DOMAIN Members(field) |->
                addSelect(alias, field.propertyName,
                          field.propertyName \o "." \o Members(field)[i].propertyName,
                          None)]
    IN  Flat([i \in DOMAIN embeddedFields |-> ToSelect(embeddedFields[i])])

\* The relations the loop of _selectRelations joins, in order.
relationsToJoin(children, relations, meta) ==
    LET required == getLoaderRequiredFields(meta.target)
        ignored  == getLoaderIgnoredFields(meta.target)
        Joined(relation) ==
            /\ ~Truthy(Get(ignored, relation.propertyName))
            /\ \/ relation.propertyName \in DOMAIN children
               \/ Truthy(Get(required, relation.propertyName))
    IN  SelectSeq(relations, Joined)

\* if (depth <= this._maxDepth)
DepthAllowsInclusive(depth) == maxDepth = Infinity \/ depth <= maxDepth

\* if (depth < this._maxDepth)
DepthAllows(depth) == LessThan(depth, maxDepth)

\* createQuery up to its relation loop: the calls it makes on the query
\* builder, and the relations its loop will join.
createQuery(model, selection, alias, context, depth) ==
    LET meta == getMetadata(model)
    IN  IF HasChildren(selection)
        THEN [selects |->
                  _selectFields(selectedFields(meta, selection), alias)
                      \o _selectEmbeddedFields(selectedEmbeddedFields(meta, selection),
                                               selection.children, meta, alias),
              relations |->
                  IF DepthAllows(depth)
                  THEN relationsToJoin(selection.children, meta.relations, meta)
                  ELSE <<>>]
        ELSE [selects |-> <<>>, relations |-> <<>>]

\* The join one turn of the loop of _selectRelations makes.
joinRelation(relation, alias, meta, childAlias) ==
    LET isRequired ==
            Truthy(Get(getLoaderRequiredFields(meta.target), relation.propertyName))
    IN  IF isRequired
        THEN leftJoinAndSelect(alias, relation.propertyName, childAlias)
        ELSE leftJoin(alias, relation.propertyName, childAlias)

\* The recursive call handed the caller's own selection node.
recursiveCallSameNode(relation, children, childAlias, depth) ==
    [model     |-> relation.inverseEntityMetadata,
     selection |-> Node(children),
     alias     |-> childAlias,
     context   |-> NumberAsContext(depth + 1),
     depth     |-> 0]

\* The arguments of the createQuery call one turn of the loop makes:
\* createQuery(target, children[name], connection, queryBuilder, childAlias,
\* depth + 1), where the sixth parameter of createQuery is context and the
\* seventh, depth, is left at its default.
recursiveCall(relation, children, childAlias, depth) ==
    [model     |-> relation.inverseEntityMetadata,
     selection |-> ChildSelection(children, relation.propertyName),
     alias     |-> childAlias,
     context   |-> NumberAsContext(depth + 1),
     depth     |-> 0]

(***************************************************************************)
(* The resolver as a state machine.                                        *)
(***************************************************************************)

NoInfo == [fieldNodes |-> <<>>, fragments |-> <<>>]

NoRequest ==
    [model |-> "Author", selection |-> NullSelection, alias |-> "Author",
     context |-> Context("guest"), depth |-> 0]

\* new GraphQLQueryResolver(options), with the field policies registered.
Init ==
    /\ \E options \in Options :
         /\ maxDepth = options.maxQueryDepth
         /\ primaryKeyColumn = options.primaryKeyColumn
    /\ \E policy \in Policies :
         /\ requiredFields = policy.required
         /\ ignoredFields = policy.ignored
    /\ phase = "idle"
    /\ round = 0
    /\ request = NoRequest
    /\ stack = <<>>
    /\ queryBuilder = <<>>
    /\ calls = <<>>
    /\ previous = <<>>
    /\ info = NoInfo
    /\ parsed = [children |-> <<>>]

\* An invocation of createQuery is entered: it selects its fields and
\* embedded fields and is left at the head of its relation loop.
Invoke(args, parent, nest, callers, builder, earlier) ==
    LET entered == createQuery(args.model, args.selection, args.alias,
                               args.context, args.depth)
        index   == Len(earlier) + 1
    IN  /\ calls' = Append(earlier,
                       [model |-> args.model, alias |-> args.alias,
                        context |-> args.context, depth |-> args.depth,
                        nest |-> nest, parent |-> parent,
                        kind |-> args.selection.kind,
                        keys |-> DOMAIN args.selection.children])
        /\ queryBuilder' = builder \o MadeBy(entered.selects, index)
        /\ stack' = Append(callers,
                       [model |-> args.model, selection |-> args.selection,
                        alias |-> args.alias, context |-> args.context,
                        depth |-> args.depth, nest |-> nest, call |-> index,
                        relations |-> entered.relations])

\* The caller resolves a selection against an entity: createQuery(model,
\* selection, connection, queryBuilder, alias, context).
Resolve ==
    /\ phase = "idle"
    /\ \E model \in Entities :
         \E selection \in Selections(model) :
           \E context \in Contexts :
             LET args == [model |-> model, selection |-> selection, alias |-> model,
                          context |-> context, depth |-> 0]
             IN  /\ request' = args
                 /\ Invoke(args, 0, 0, <<>>, <<>>, <<>>)
    /\ phase' = "running"
    /\ round' = 1
    /\ UNCHANGED <<maxDepth, primaryKeyColumn, requiredFields, ignoredFields,
                   previous, info, parsed>>

\* One turn of the loop of _selectRelations: the join, then the recursive
\* call of createQuery.
SelectRelation ==
    /\ phase = "running"
    /\ stack # <<>>
    /\ stack[Len(stack)].relations # <<>>
    /\ LET top        == stack[Len(stack)]
           relation   == Head(top.relations)
           childAlias == _generateChildHash(top.alias, relation.propertyName, 10)
           join       == joinRelation(relation, top.alias, getMetadata(top.model),
                                      childAlias)
       IN  Invoke(recursiveCall(relation, top.selection.children, childAlias,
                                top.depth),
                  top.call, top.nest + 1,
                  [stack EXCEPT ![Len(stack)].relations = Tail(@)],
                  queryBuilder \o MadeBy(<<join>>, top.call),
                  calls)
    /\ UNCHANGED <<maxDepth, primaryKeyColumn, requiredFields, ignoredFields, phase,
                   round, request, previous, info, parsed>>

\* An invocation of createQuery returns the query builder.
Return ==
    /\ phase = "running"
    /\ stack # <<>>
    /\ stack[Len(stack)].relations = <<>>
    /\ stack' = SubSeq(stack, 1, Len(stack) - 1)
    /\ phase' = IF Len(stack) = 1 THEN "done" ELSE "running"
    /\ UNCHANGED <<maxDepth, primaryKeyColumn, requiredFields, ignoredFields, round,
                   request, queryBuilder, calls, previous, info, parsed>>

Joins(builder) ==
    SelectSeq(builder, LAMBDA o : o.op \in {"leftJoin", "leftJoinAndSelect"})

\* The aliases the joins of a query builder introduce, in order.
JoinAliases(builder) == [i \in DOMAIN Joins(builder) |-> Joins(builder)[i].alias]

\* The caller resolves the same selection again, on a fresh query builder
\* and under another request context.
ResolveAgain ==
    /\ phase = "done"
    /\ round = 1
    /\ \E context \in Contexts \ {request.context} :
         /\ request' = [request EXCEPT !.context = context]
         /\ Invoke([request EXCEPT !.context = context], 0, 0, <<>>, <<>>, <<>>)
    /\ previous' = JoinAliases(queryBuilder)
    /\ phase' = "running"
    /\ round' = 2
    /\ UNCHANGED <<maxDepth, primaryKeyColumn, requiredFields, ignoredFields,
                   info, parsed>>

Next ==
    \/ Resolve
    \/ SelectRelation
    \/ Return
    \/ ResolveAgain

Spec == Init /\ [][Next]_vars

(***************************************************************************)
(* GraphQLInfoParser.  An AST node keeps the fields the parser reads: kind, *)
(* name.value, arguments and selectionSet.selections (empty when the node  *)
(* has no selection set).                                                  *)
(***************************************************************************)

Field(name, selections) ==
    [kind |-> "Field", name |-> name, arguments |-> <<>>, selections |-> selections]

InlineFragment(selections) ==
    [kind |-> "InlineFragment", name |-> None, arguments |-> <<>>,
     selections |-> selections]

FragmentSpread(name) ==
    [kind |-> "FragmentSpread", name |-> name, arguments |-> <<>>,
     selections |-> <<>>]

FragmentDefinition(name, selections) ==
    [kind |-> "FragmentDefinition", name |-> name, arguments |-> <<>>,
     selections |-> selections]

\* An argument of a field (ArgumentNode): name.value and value.
Argument(name, value) == [name |-> name, value |-> value]

\* A field node with arguments.
FieldWith(name, arguments, selections) ==
    [kind |-> "Field", name |-> name, arguments |-> arguments,
     selections |-> selections]

\* info.fragments[name] of a fragment the document does not define.
Undefined ==
    [kind |-> None, name |-> None, arguments |-> <<>>, selections |-> <<>>]

getSelections(ast) == ast.selections

isFragment(ast) == ast.kind = "InlineFragment" \/ ast.kind = "FragmentSpread"

getAST(ast, information) ==
    IF ast.kind = "FragmentSpread"
    THEN IF ast.name \in DOMAIN information.fragments
         THEN information.fragments[ast.name] ELSE Undefined
    ELSE ast

\* A literal of the request document (ValueNode): kind, value, and the
\* fields of an object literal or the values of a list literal.
Literal(kind, value) == [kind |-> kind, value |-> value, fields |-> <<>>, values |-> <<>>]

ObjectLiteral(fields) ==
    [kind |-> "ObjectValue", value |-> None, fields |-> fields, values |-> <<>>]

ListLiteral(values) ==
    [kind |-> "ListValue", value |-> None, fields |-> <<>>, values |-> values]

\* parseFloat on the numerals the model writes.
parseFloat(text) ==
    CASE text = "0" -> 0
      [] text = "1" -> 1
      [] text = "1.0" -> 1
      [] text = "2" -> 2
      [] text = "2.0" -> 2
      [] OTHER -> 0

\* A decoded value, tagged with what it is.
Value(type, value) == [type |-> type, value |-> value]

\* A TypeError thrown while decoding.
TypeError == Value("TypeError", None)

RECURSIVE parseLiteral(_, _)
\* parseLiteral(ast) called with or without a this to look parseLiteral up
\* on: this.parseLiteral(value) binds it, and so does the arrow function of
\* the object case when its own call had one; values.map(this.parseLiteral)
\* calls the method without.
parseLiteral(ast, bound) ==
    CASE ast.kind = "StringValue" -> Value("string", ast.value)
      [] ast.kind = "BooleanValue" -> Value("boolean", ast.value)
      [] ast.kind \in {"IntValue", "FloatValue"} -> Value("number", parseFloat(ast.value))
      [] ast.kind = "ObjectValue" ->
            IF ast.fields = <<>> THEN Value("object", <<>>)
            ELSE IF ~bound THEN TypeError
            ELSE LET decoded == [i \in DOMAIN ast.fields |->
                                    parseLiteral(ast.fields[i].value, bound)]
                     names   == {ast.fields[i].name : i \in DOMAIN ast.fields}
                     Last(n) == Max({i \in DOMAIN ast.fields : ast.fields[i].name = n})
                 IN  IF \E i \in DOMAIN decoded : decoded[i].type = "TypeError"
                     THEN TypeError
                     ELSE Value("object", [n \in names |-> decoded[Last(n)]])
      [] ast.kind = "ListValue" ->
            IF ~bound THEN TypeError
            ELSE LET decoded == [i \in DOMAIN ast.values |->
                                    parseLiteral(ast.values[i], FALSE)]
                 IN  IF \E i \in DOMAIN decoded : decoded[i].type = "TypeError"
                     THEN TypeError
                     ELSE Value("list", decoded)
      [] OTHER -> Value("null", None)

\* node.arguments.map(({ name, value }) => ({ [name.value]:
\* this.parseLiteral(value) })).reduce((p, n) => ({ ...p, ...n }), {})
argumentsOf(node) ==
    LET names   == {node.arguments[i].name : i \in DOMAIN node.arguments}
        Last(n) == Max({i \in DOMAIN node.arguments : node.arguments[i].name = n})
    IN  [n \in names |-> parseLiteral(node.arguments[Last(n)].value, TRUE)]

\* Object.assign(target, source)
ObjectAssign(target, source) == source @@ target

RECURSIVE flattenAST(_, _, _)
RECURSIVE reduceSelections(_, _, _)

\* A field met again replaces the node of its name.
flattenFieldOverwrite(flattened, node, information) ==
    (node.name :> [arguments |-> argumentsOf(node),
                   children  |-> flattenAST(node, information, <<>>)])
        @@ flattened

\* What the reducer of flattenAST does with a field node.  flattenAST fills
\* the object it is handed, so the target of Object.assign is the object the
\* call returns.
flattenField(flattened, node, information) ==
    LET name == node.name
    IN  IF name \in DOMAIN flattened
        THEN LET children == flattenAST(node, information, flattened[name].children)
             IN  [flattened EXCEPT ![name].children = ObjectAssign(children, children)]
        ELSE flattened @@
                (name :> [arguments |-> argumentsOf(node),
                          children  |-> flattenAST(node, information, <<>>)])

\* getSelections(ast).reduce((flattened, n) => ..., obj)
reduceSelections(selections, information, flattened) ==
    IF selections = <<>> THEN flattened
    ELSE LET n == Head(selections)
             next ==
                 IF isFragment(n)
                 THEN flattenAST(getAST(n, information), information, flattened)
                 ELSE flattenField(flattened, n, information)
         IN  reduceSelections(Tail(selections), information, next)

flattenAST(ast, information, obj) ==
    reduceSelections(getSelections(ast), information, obj)

RECURSIVE Throws(_)
\* Whether the decoding of an argument threw while the children were built:
\* nothing in flattenAST or graphqlFields catches, so the call ends there.
Throws(children) ==
    \E name \in DOMAIN children :
        \/ \E a \in DOMAIN children[name].arguments :
              children[name].arguments[a].type = "TypeError"
        \/ Throws(children[name].children)

RECURSIVE reduceFieldNodes(_, _, _)
reduceFieldNodes(fields, information, o) ==
    IF fields = <<>> THEN o
    ELSE reduceFieldNodes(Tail(fields), information,
                          flattenAST(Head(fields), information, o))

graphqlFields(information, obj) ==
    [children |-> reduceFieldNodes(information.fieldNodes, information, obj)]

(***************************************************************************)
(* The request documents the model draws.                                  *)
(***************************************************************************)

FieldNames == {"a", "b"}

\* The selection sets of at most n nodes in all, each with its number of
\* nodes, built from the table of those of fewer nodes.
Extend(table, n, spreads) ==
    {[s |-> <<>>, n |-> 0]}
    \cup
    UNION {
      {[s |-> <<first.s>> \o rest.s, n |-> first.n + rest.n] :
          rest \in table[n - first.n]} :
      first \in
          {[s |-> Field(name, sub.s), n |-> 1 + sub.n] :
              name \in FieldNames, sub \in table[n - 1]}
          \cup {[s |-> InlineFragment(sub.s), n |-> 1 + sub.n] :
                  sub \in table[n - 1] \ {[s |-> <<>>, n |-> 0]}}
          \cup (IF spreads THEN {[s |-> FragmentSpread("F"), n |-> 1]} ELSE {})}

RECURSIVE SelectionSetTable(_, _)
SelectionSetTable(n, spreads) ==
    IF n = 0 THEN (0 :> {[s |-> <<>>, n |-> 0]})
    ELSE LET table == SelectionSetTable(n - 1, spreads)
         IN  table @@ (n :> Extend(table, n, spreads))

\* Every selection set of at most n nodes in all; fragment spreads, of the
\* fragment F, only if spreads is true.
SelectionSets(n, spreads) == SelectionSetTable(n, spreads)[n]

RECURSIVE Spreads(_)
\* Whether a selection set holds a fragment spread at any level.
Spreads(selections) ==
    \E i \in DOMAIN selections :
        \/ selections[i].kind = "FragmentSpread"
        \/ Spreads(selections[i].selections)

\* The field node of the resolver's field with its selection set and, when
\* that spreads the fragment F, the definition of F or none.
Documents ==
    LET bodies      == SelectionSetTable(MaxAstNodes, TRUE)[MaxAstNodes]
        definitions == SelectionSetTable(MaxAstNodes, FALSE)
    IN  UNION {
          {[fieldNodes |-> <<Field("q", body.s)>>, fragments |-> <<>>]}
          \cup
          (IF ~Spreads(body.s) THEN {}
           ELSE {[fieldNodes |-> <<Field("q", body.s)>>,
                  fragments |-> ("F" :> FragmentDefinition("F", definition.s))] :
                    definition \in definitions[MaxAstNodes - body.n]
                                      \ {[s |-> <<>>, n |-> 0]}}) :
          body \in bodies}

InitParser ==
    /\ info \in Documents
    /\ parsed = [children |-> <<>>]
    /\ phase = "ast"
    /\ maxDepth = Infinity
    /\ primaryKeyColumn = None
    /\ requiredFields = [e \in Entities |-> <<>>]
    /\ ignoredFields = [e \in Entities |-> <<>>]
    /\ round = 0
    /\ request = NoRequest
    /\ stack = <<>>
    /\ queryBuilder = <<>>
    /\ calls = <<>>
    /\ previous = <<>>

\* The loader parses the resolve info: graphqlFields(info).
Parse ==
    /\ phase = "ast"
    /\ parsed' = LET selection == graphqlFields(info, <<>>)
                  IN  IF Throws(selection.children) THEN TypeError ELSE selection
    /\ phase' = "parsed"
    /\ UNCHANGED <<info, maxDepth, primaryKeyColumn, requiredFields, ignoredFields,
                   round, request, stack, queryBuilder, calls, previous>>

NextParser == Parse

SpecParser == InitParser /\ [][NextParser]_vars

(***************************************************************************)
(* The literals a field argument can hold.                                 *)
(***************************************************************************)

\* One literal of each kind without parts; an enum value stands for the
\* kinds parseLiteral has no case for.
Scalars ==
    {Literal("StringValue", "s"), Literal("BooleanValue", "true"),
     Literal("IntValue", "1"), Literal("FloatValue", "2.0"),
     Literal("EnumValue", "E")}

\* The fields of an object literal holding the given values under the names
\* k, l, k, ...
ObjectFields(values) ==
    [i \in DOMAIN values |->
        [name |-> IF i % 2 = 1 THEN "k" ELSE "l", value |-> values[i]]]

\* The sequences of literals of at most n nodes in all, each with its number
\* of nodes, built from the table of those of fewer nodes.
ExtendLiterals(table, n) ==
    {[s |-> <<>>, n |-> 0]}
    \cup
    UNION {
      {[s |-> <<first.s>> \o rest.s, n |-> first.n + rest.n] :
          rest \in table[n - first.n]} :
      first \in
          {[s |-> scalar, n |-> 1] : scalar \in Scalars}
          \cup {[s |-> ListLiteral(sub.s), n |-> 1 + sub.n] : sub \in table[n - 1]}
          \cup {[s |-> ObjectLiteral(ObjectFields(sub.s)), n |-> 1 + sub.n] :
                  sub \in table[n - 1]}}

RECURSIVE LiteralTable(_)
LiteralTable(n) ==
    IF n = 0 THEN (0 :> {[s |-> <<>>, n |-> 0]})
    ELSE LET table == LiteralTable(n - 1)
         IN  table @@ (n :> ExtendLiterals(table, n))

\* Every literal of at most MaxLiteralNodes nodes.
Literals ==
    {r.s[1] : r \in {x \in LiteralTable(MaxLiteralNodes)[MaxLiteralNodes] :
                        Len(x.s) = 1}}

\* The resolve info of a query q { a(x: literal) }.
InitLiteral ==
    /\ info \in {[fieldNodes |->
                     <<Field("q", <<FieldWith("a", <<Argument("x", literal)>>,
                                              <<>>)>>)>>,
                  fragments |-> <<>>] : literal \in Literals}
    /\ parsed = [children |-> <<>>]
    /\ phase = "ast"
    /\ maxDepth = Infinity
    /\ primaryKeyColumn = None
    /\ requiredFields = [e \in Entities |-> <<>>]
    /\ ignoredFields = [e \in Entities |-> <<>>]
    /\ round = 0
    /\ request = NoRequest
    /\ stack = <<>>
    /\ queryBuilder = <<>>
    /\ calls = <<>>
    /\ previous = <<>>

SpecLiteral == InitLiteral /\ [][NextParser]_vars

(***************************************************************************)
(* What the claims speak of.                                               *)
(***************************************************************************)

Done == phase = "done"

\* The invocation of createQuery that made a call on the query builder.
CallOf(o) == calls[o.call]

IsJoin(o) == o.op \in {"leftJoin", "leftJoinAndSelect"}

Ops == Range(queryBuilder)

\* The names the client requested at the selection node of an invocation.
RequestedAt(call) == call.keys

IsIgnored(model, property) == Truthy(Get(ignoredFields[model], property))

\* Marked required: the policy holds true or a predicate for the property.
IsMarkedRequired(model, property) == Get(requiredFields[model], property) # None

\* const isRequired = typeof predicate === "function"
\*     ? predicate(context, Object.keys(children)) : predicate
isRequired(predicate, context, keys) ==
    IF predicate \in Predicates THEN Apply(predicate, context, keys)
    ELSE predicate = "true"

PrimaryColumns(model) ==
    {c.propertyName : c \in {x \in Range(getMetadata(model).columns) : x.isPrimary}}

\* C1. Depth limit: every join is made for a relation of an entity instance
\* whose nesting depth from the root (root 0, one more per recursion into a
\* relation) is below the configured maxDepth.
C1_DepthLimit ==
    \A o \in Ops : IsJoin(o) => LessThan(CallOf(o).nest, maxDepth)

\* C2 as claimed. With maxDepth = 0 a relation of the root entity that the
\* client only selected is not joined, while a non-ignored required relation
\* of the root entity is still joined, with the eager-select join.
C2_RequiredBypassesDepth ==
    (Done /\ maxDepth = 0 /\ HasChildren(request.selection)) =>
        \A r \in RelationNames(getMetadata(request.model)) :
            /\ (r \in DOMAIN request.selection.children
                    /\ ~IsMarkedRequired(request.model, r))
                => ~\E o \in Ops : IsJoin(o) /\ o.on = request.alias /\ o.of = r
            /\ (IsMarkedRequired(request.model, r) /\ ~IsIgnored(request.model, r))
                => \E o \in Ops : /\ o.op = "leftJoinAndSelect"
                                  /\ o.on = request.alias /\ o.of = r

\* C2 as amended. With maxDepth = 0 no relation is joined at all, be it
\* selected by the client or marked required.
C2_NoJoinAtDepthZero ==
    maxDepth = 0 => \A o \in Ops : ~IsJoin(o)

\* A resolution with maxDepth = 0 has finished for a selection that names a
\* relation of the root entity, another relation of which is required.
C2_Witness ==
    /\ Done
    /\ maxDepth = 0
    /\ HasChildren(request.selection)
    /\ \E r, q \in RelationNames(getMetadata(request.model)) :
         /\ r # q
         /\ r \in DOMAIN request.selection.children
         /\ IsMarkedRequired(request.model, q)
         /\ ~IsIgnored(request.model, q)

\* C3. Ignored precedence: no call on the query builder projects or joins a
\* property that is marked ignored for the entity of the invocation.
C3_IgnoredNeverSelected ==
    \A o \in Ops : ~IsIgnored(CallOf(o).model, o.of)

\* C4. Conditional requiredness: a property whose required policy is a
\* predicate that returns false on the request context and the requested
\* child names is selected only for another reason (the client asked for it,
\* it is the primary key), and is never joined as a required relation.
C4_PredicateDecides ==
    \A o \in Ops :
        LET call   == CallOf(o)
            policy == Get(requiredFields[call.model], o.of)
        IN  (policy \in Predicates
                /\ ~isRequired(policy, call.context, RequestedAt(call)))
            => /\ o.op # "leftJoinAndSelect"
               /\ \/ o.of \in RequestedAt(call)
                  \/ o.of \in PrimaryColumns(call.model)
                  \/ o.of = primaryKeyColumn

EmptyMapping(selection) ==
    selection.kind = "node" /\ DOMAIN selection.children = {}

\* C5 as claimed. Called with a selection that is null, has no children or
\* has an empty mapping of children, createQuery appends nothing.
C5_EmptyBranchUnchanged ==
    (Done /\ (request.selection.kind \in {"null", "absent"}
                \/ EmptyMapping(request.selection)))
        => queryBuilder = <<>>

\* C5 as amended. An invocation whose selection is null or has no children
\* appends nothing; an empty mapping of children is a selection like any
\* other (the primary key, required fields and required relations are added).
C5_NoSelectionNoChange ==
    /\ \A o \in Ops : CallOf(o).kind = "node"
    /\ (stack # <<>> /\ request.selection.kind \in {"null", "absent"})
        => queryBuilder = <<>>

\* A resolution has finished for a selection without children, on an entity
\* with a required property.
C5_Witness ==
    /\ Done
    /\ request.selection.kind = "absent"
    /\ DOMAIN requiredFields[request.model] # {}
    /\ queryBuilder = <<>>

\* The selection names columns of the root entity only.
ScalarOnly ==
    /\ request.selection.kind = "node"
    /\ DOMAIN request.selection.children \subseteq ColumnNames(getMetadata(request.model))

Selects == SelectSeq(queryBuilder, LAMBDA o : o.op = "addSelect")

NoColumnTwice ==
    Cardinality({o.selection : o \in Range(Selects)}) = Len(Selects)

\* C6 as claimed. A selection of scalar fields only yields one projection
\* per requested non-ignored property, per required column and for the
\* primary key (the primary column, and primaryKeyColumn if configured),
\* none twice, and no join.
C6_ScalarOnlyNoJoin ==
    (Done /\ ScalarOnly) =>
        LET model == request.model
        IN  /\ \A o \in Ops : ~IsJoin(o)
            /\ NoColumnTwice
            /\ {o.of : o \in Range(Selects)} =
                  {c \in ColumnNames(getMetadata(model)) :
                      /\ ~IsIgnored(model, c)
                      /\ \/ c \in DOMAIN request.selection.children
                         \/ IsMarkedRequired(model, c)
                         \/ c \in PrimaryColumns(model)}
                  \cup (IF primaryKeyColumn = None THEN {} ELSE {primaryKeyColumn})

\* C6 as amended. A selection of scalar fields only yields exactly: one
\* projection per non-ignored column that is primary, requested or marked
\* required; one for primaryKeyColumn if it is configured and not among
\* those; one per member column of each non-ignored embedded object marked
\* required; none twice; and no join but one eager-select join per
\* non-ignored relation marked required, made only if maxDepth > 0.
C6_ScalarOnlyExact ==
    (Done /\ ScalarOnly) =>
        LET model == request.model
            meta  == getMetadata(model)
            Kept(p) == ~IsIgnored(model, p)
            columns ==
                {c \in ColumnNames(meta) :
                    /\ Kept(c)
                    /\ \/ c \in DOMAIN request.selection.children
                       \/ IsMarkedRequired(model, c)
                       \/ c \in PrimaryColumns(model)}
            key ==
                IF primaryKeyColumn = None \/ primaryKeyColumn \in columns
                THEN {} ELSE {primaryKeyColumn}
            members ==
                UNION {{e.propertyName \o "." \o m.propertyName : m \in Range(e.columns)} :
                        e \in {x \in Range(meta.embeddeds) :
                                 Kept(x.propertyName)
                                    /\ IsMarkedRequired(model, x.propertyName)}}
            joined ==
                IF LessThan(0, maxDepth)
                THEN {r \in RelationNames(meta) : Kept(r) /\ IsMarkedRequired(model, r)}
                ELSE {}
        IN  /\ {o.selection : o \in Range(Selects)} =
                  {columnSelection(request.alias, f) : f \in columns \cup key \cup members}
            /\ NoColumnTwice
            /\ \A o \in Ops : IsJoin(o) =>
                  o.op = "leftJoinAndSelect" /\ o.on = request.alias /\ o.of \in joined
            /\ \A r \in joined :
                  Cardinality({i \in DOMAIN queryBuilder :
                      IsJoin(queryBuilder[i]) /\ queryBuilder[i].of = r}) = 1

\* A resolution of a non-empty selection of scalar fields has finished with
\* a join in the query builder.
C6_Witness ==
    /\ Done
    /\ ScalarOnly
    /\ DOMAIN request.selection.children # {}
    /\ \E o \in Ops : IsJoin(o)

\* C8. Deterministic aliasing: resolving the same selection against the same
\* entities from the same root alias again, under another request context,
\* introduces the same child aliases in the same order.
C8_SameAliases ==
    round = 2 =>
        /\ Len(JoinAliases(queryBuilder)) <= Len(previous)
        /\ JoinAliases(queryBuilder)
              = SubSeq(previous, 1, Len(JoinAliases(queryBuilder)))
        /\ Done => Len(JoinAliases(queryBuilder)) = Len(previous)

\* The second resolution has finished with a join made below the root.
C8_Witness ==
    /\ Done
    /\ round = 2
    /\ Len(previous) >= 2
    /\ \E o \in Ops : IsJoin(o) /\ CallOf(o).nest >= 1

\* C9. Required versus selected relation: nothing is projected or joined
\* under the child alias of an eager-select join, and a plain join is made
\* only for a relation the client selected.
C9_RequiredNotRecursed ==
    \A o \in Ops :
        /\ o.op = "leftJoinAndSelect" => ~\E x \in Ops : x.on = o.alias
        /\ o.op = "leftJoin" => o.of \in RequestedAt(CallOf(o))

RECURSIVE SumOf(_)
\* The sum of the second components of a set of pairs.
SumOf(pairs) ==
    IF pairs = {} THEN 0
    ELSE LET x == CHOOSE y \in pairs : TRUE
         IN  x[2] + SumOf(pairs \ {x})

\* The most relations an entity has.
MostRelations == Max({Len(getMetadata(e).relations) : e \in Entities})

RECURSIVE Weight(_)
\* A bound, read off the selection tree alone, on the steps an invocation of
\* createQuery with that selection takes from its entry to its return: its
\* return, a join and an immediate return for each relation that is joined
\* without being selected, and a join and the steps of the recursive call
\* for each child node.
Weight(selection) ==
    IF selection.kind # "node" THEN 1
    ELSE 1 + 2 * MostRelations
           + SumOf({<<k, 1 + Weight(selection.children[k])>> :
                      k \in DOMAIN selection.children})

\* A bound on the steps left to the active invocations.
StepsLeft ==
    Sum([i \in DOMAIN stack |->
           1 + Sum([j \in DOMAIN stack[i].relations |->
                      1 + Weight(ChildSelection(stack[i].selection.children,
                                                stack[i].relations[j].propertyName))])])

\* Every recursive call holds a child of its caller's selection node, or no
\* node, and the nesting of calls stays within the height of the selection.
RecursionBounded ==
    /\ \A i \in DOMAIN stack :
         /\ stack[i].nest = i - 1
         /\ stack[i].nest <= Height(request.selection)
    /\ \A i \in 2..Len(stack) :
         \/ stack[i].selection = NullSelection
         \/ stack[i].selection \in Range(stack[i - 1].selection.children)

\* C10. Termination on cyclic entity graphs: every recursive call receives a
\* strict sub-node of its caller's selection node or no node, the recursion
\* depth (root call 0) never exceeds the height of the selection tree, and
\* every step of a resolution lowers a bound on the steps left to it that
\* depends on the selection tree alone.
C10_Terminates ==
    /\ []RecursionBounded
    /\ [][phase = "running" => StepsLeft' < StepsLeft]_vars

\* A resolution with maxDepth at its default has finished after calling
\* createQuery for the root entity again two levels below the root.
C10_Witness ==
    /\ Done
    /\ maxDepth = Infinity
    /\ \E i \in DOMAIN calls :
         /\ calls[i].nest = 2
         /\ calls[i].model = request.model
         /\ calls[i].kind = "node"

RECURSIVE FieldsIn(_, _)
\* The field nodes of a selection set in document order, those of its
\* fragment spreads and inline fragments in their place.
FieldsIn(selections, information) ==
    Flat([i \in DOMAIN selections |->
            IF isFragment(selections[i])
            THEN FieldsIn(getSelections(getAST(selections[i], information)),
                          information)
            ELSE <<selections[i]>>])

RECURSIVE Collected(_, _)
\* One node per field name of a selection set, its children collected from
\* the selection sets of all the occurrences of the name.
Collected(selections, information) ==
    LET fields == FieldsIn(selections, information)
        Occurrences(name) == SelectSeq(fields, LAMBDA f : f.name = name)
    IN  [name \in {fields[i].name : i \in DOMAIN fields} |->
            [arguments |-> argumentsOf(Occurrences(name)[1]),
             children  |->
                Collected(Flat([i \in DOMAIN Occurrences(name) |->
                                  Occurrences(name)[i].selections]),
                          information)]]

RECURSIVE Decoded(_)
\* The value of a literal by the dispatch on its kind, applied alike at
\* every level: string and boolean raw, int and float to a number, object
\* to a mapping of its decoded fields, list to the sequence of its decoded
\* elements, any other kind to null.
Decoded(ast) ==
    CASE ast.kind = "StringValue" -> Value("string", ast.value)
      [] ast.kind = "BooleanValue" -> Value("boolean", ast.value)
      [] ast.kind \in {"IntValue", "FloatValue"} ->
            Value("number", parseFloat(ast.value))
      [] ast.kind = "ObjectValue" ->
            LET names   == {ast.fields[i].name : i \in DOMAIN ast.fields}
                Last(n) == Max({i \in DOMAIN ast.fields : ast.fields[i].name = n})
            IN  Value("object", [n \in names |-> Decoded(ast.fields[Last(n)].value)])
      [] ast.kind = "ListValue" ->
            Value("list", [i \in DOMAIN ast.values |-> Decoded(ast.values[i])])
      [] OTHER -> Value("null", None)

\* The literal of the argument x of the field a of the query.
ArgumentLiteral == info.fieldNodes[1].selections[1].arguments[1].value

\* C11. List literal decoding: once a query whose field a has a list literal
\* for its argument x is parsed, the parse has not failed, and the argument
\* of the node a is the sequence of the decoded elements of the literal, of
\* the same length and order, each element decoded by the same dispatch on
\* its kind as a literal at the top, object and list elements included.
C11_ListDecoding ==
    (phase = "parsed" /\ ArgumentLiteral.kind = "ListValue") =>
        /\ "children" \in DOMAIN parsed
        /\ parsed.children["a"].arguments["x"] = Decoded(ArgumentLiteral)

=============================================================================
